---------------------------- MODULE Spec2Model ----------------------------
(***************************************************************************)
(* A model of RDWstreamlit.py, the "Autokosten Calculator": a Streamlit    *)
(* script that looks licence plates up in the RDW registry and on a road   *)
(* tax site, caches both lookups in the session state, merges per-plate    *)
(* overrides with fixed defaults, computes a monthly cost breakdown and    *)
(* saves the session state to data.json at the end of every script run.    *)
(*                                                                         *)
(* Representation.                                                         *)
(*  - A Python str is a sequence of one-character strings, so that upper,  *)
(*    replace, strip, split, startswith, "in" and float() are computed on  *)
(*    the characters.                                                      *)
(*  - A Python dict is a function; d.get(k) is Get(d, k), with None for    *)
(*    a missing key.                                                       *)
(*  - A float is a fixed-point integer.  Amounts of money, prices per      *)
(*    litre or kWh and consumption figures are in hundredths (cents).      *)
(*    Percentages are whole percents.  A yearly amount is in 1/100 cent,   *)
(*    and dividing it by 12 gives the monthly amount in 1/1200 cent (a     *)
(*    tick): the same integer in the smaller unit, hence exact.  IEEE      *)
(*    rounding is not modelled.                                            *)
(***************************************************************************)
EXTENDS Integers, Sequences, FiniteSets, TLC

(***************************************************************************)
(* Bounds of the model.                                                    *)
(***************************************************************************)
\* Script runs started by a user interaction, over all sessions.
MaxRuns == 3
\* Length of the amount strings the tax parsing is applied to.
MaxAmountLen == 4

(***************************************************************************)
(* Python values.                                                          *)
(***************************************************************************)
\* None, as a value no str equals.
None == <<"<None>">>

\* bool(v) of a str-or-None value: None and "" are falsy.
Truthy(v) == v # None /\ v # <<>>

\* d.get(k)
Get(d, k) == IF k \in DOMAIN d THEN d[k] ELSE None

\* d.get(k, default)
GetOr(d, k, default) == IF k \in DOMAIN d THEN d[k] ELSE default

\* d.update(e): the keys of e win.
Update(d, e) ==
    [f \in DOMAIN d \cup DOMAIN e |-> IF f \in DOMAIN e THEN e[f] ELSE d[f]]

\* d[k] = v
Put(d, k, v) == [f \in DOMAIN d \cup {k} |-> IF f = k THEN v ELSE d[f]]

(***************************************************************************)
(* str methods.                                                            *)
(***************************************************************************)
LowerLetters ==
    <<"a", "b", "c", "d", "e", "f", "g", "h", "i", "j", "k", "l", "m",
      "n", "o", "p", "q", "r", "s", "t", "u", "v", "w", "x", "y", "z">>

UpperLetters ==
    <<"A", "B", "C", "D", "E", "F", "G", "H", "I", "J", "K", "L", "M",
      "N", "O", "P", "Q", "R", "S", "T", "U", "V", "W", "X", "Y", "Z">>

UpperChar(c) ==
    IF \E i \in 1..Len(LowerLetters) : LowerLetters[i] = c
    THEN UpperLetters[CHOOSE i \in 1..Len(LowerLetters) : LowerLetters[i] = c]
    ELSE c

\* s.upper()
Upper(s) == [i \in 1..Len(s) |-> UpperChar(s[i])]

RECURSIVE Replace(_, _, _)
\* s.replace(old, new) for a one-character old and a str new.
Replace(s, old, new) ==
    IF s = <<>> THEN <<>>
    ELSE (IF Head(s) = old THEN new ELSE <<Head(s)>>)
         \o Replace(Tail(s), old, new)

Whitespace == {" ", "\t", "\n"}

RECURSIVE LStrip(_)
LStrip(s) ==
    IF s # <<>> /\ Head(s) \in Whitespace THEN LStrip(Tail(s)) ELSE s

RECURSIVE RStrip(_)
RStrip(s) ==
    IF s # <<>> /\ s[Len(s)] \in Whitespace
    THEN RStrip(SubSeq(s, 1, Len(s) - 1))
    ELSE s

\* s.strip()
Strip(s) == RStrip(LStrip(s))

\* s.startswith(p)
StartsWith(s, p) == Len(s) >= Len(p) /\ SubSeq(s, 1, Len(p)) = p

\* sub in s
Contains(sub, s) ==
    \E i \in 0..(Len(s) - Len(sub)) : SubSeq(s, i + 1, i + Len(sub)) = sub

RECURSIVE Split(_, _)
\* s.split(sep) for a one-character sep: the pieces between the separators.
Split(s, sep) ==
    IF \E i \in 1..Len(s) : s[i] = sep
    THEN LET i == CHOOSE j \in 1..Len(s) :
                      s[j] = sep /\ \A h \in 1..(j - 1) : s[h] # sep
         IN  <<SubSeq(s, 1, i - 1)>> \o Split(SubSeq(s, i + 1, Len(s)), sep)
    ELSE <<s>>

(***************************************************************************)
(* float(s).  The grammar covered: surrounding whitespace, an optional     *)
(* sign, digits with at most one "." and at least one digit.  (Python also *)
(* reads exponents, "inf", "nan" and "_" between digits; no string of the  *)
(* model is written that way.)  The result is ValueError, or the number    *)
(* mant / 10^dec.                                                          *)
(***************************************************************************)
Digits == <<"0", "1", "2", "3", "4", "5", "6", "7", "8", "9">>

IsDigit(c) == \E i \in 1..Len(Digits) : Digits[i] = c

DigitVal(c) == (CHOOSE i \in 1..Len(Digits) : Digits[i] = c) - 1

RECURSIVE DigitsVal(_)
\* The number a sequence of digits (and no other character) writes.
DigitsVal(s) ==
    IF s = <<>> THEN 0
    ELSE 10 * DigitsVal(SubSeq(s, 1, Len(s) - 1)) + DigitVal(s[Len(s)])

RECURSIVE Pow10(_)
Pow10(n) == IF n = 0 THEN 1 ELSE 10 * Pow10(n - 1)

ValueError == [ok |-> FALSE, mant |-> 0, dec |-> 0]

Float(s) ==
    LET t    == Strip(s)
        neg  == t # <<>> /\ Head(t) = "-"
        u    == IF t # <<>> /\ Head(t) \in {"-", "+"} THEN Tail(t) ELSE t
        dots == {i \in 1..Len(u) : u[i] = "."}
        body == Replace(u, ".", <<>>)
        wellFormed == /\ Cardinality(dots) <= 1
                      /\ body # <<>>
                      /\ \A i \in 1..Len(body) : IsDigit(body[i])
        dec  == IF dots = {} THEN 0
                ELSE Len(u) - (CHOOSE i \in dots : TRUE)
    IN  IF wellFormed
        THEN [ok |-> TRUE,
              mant |-> IF neg THEN 0 - DigitsVal(body) ELSE DigitsVal(body),
              dec |-> dec]
        ELSE ValueError

\* A parsed number in hundredths.  Every number the model parses outside
\* the tax-amount strings has at most two decimals.
Hundredths(p) ==
    IF p.dec <= 2 THEN p.mant * Pow10(2 - p.dec)
    ELSE p.mant \div Pow10(p.dec - 2)

(***************************************************************************)
(* String constants of the program.                                        *)
(***************************************************************************)
\* "Geen data gevonden"
GeenDataGevonden == <<"G", "e", "e", "n", " ", "d", "a", "t", "a", " ", "g", "e", "v", "o", "n", "d", "e", "n">>

\* "Veld niet gevonden"
VeldNietGevonden == <<"V", "e", "l", "d", " ", "n", "i", "e", "t", " ", "g", "e", "v", "o", "n", "d", "e", "n">>

\* "Niet gevonden"
NietGevonden == <<"N", "i", "e", "t", " ", "g", "e", "v", "o", "n", "d", "e", "n">>

\* "ELEKTR"
ELEKTR == <<"E", "L", "E", "K", "T", "R">>

\* f"Error: {e}" for the one exception text the model draws.
ErrorText == <<"E", "r", "r", "o", "r", ":", " ", "t", "i", "m", "e", "o", "u", "t">>

\* The prefixes of the override keys: f'aanschaf_{kenteken}' and so on.
ParamPrefix ==
    [aanschaf     |-> <<"a", "a", "n", "s", "c", "h", "a", "f", "_">>,
     afschrijving |-> <<"a", "f", "s", "c", "h", "r", "i", "j", "v", "i", "n", "g", "_">>,
     verzekering  |-> <<"v", "e", "r", "z", "e", "k", "e", "r", "i", "n", "g", "_">>,
     lease        |-> <<"l", "e", "a", "s", "e", "_">>,
     onderhoud    |-> <<"o", "n", "d", "e", "r", "h", "o", "u", "d", "_">>]

Params == DOMAIN ParamPrefix

\* f'{param}_{kenteken}'
OverrideKey(param, kenteken) == ParamPrefix[param] \o kenteken

(***************************************************************************)
(* The external sources.  A response is a transport or HTTP error          *)
(* (requests raises a RequestException, from the call or from              *)
(* raise_for_status), or a body.  NoResponse stands for "not requested".   *)
(***************************************************************************)
NoResponse == [status |-> "none"]

Failed == [status |-> "error"]

\* A JSON body of the registry: an array of at most one object.
Json(rows) == [status |-> "ok", json |-> rows]

\* The rows of the base dataset (m9d7-ebf2) the registry may hold for a
\* plate: a numeric list price for plate 1A; for any other plate no list
\* price, or a list price that is no number.  The rows carry no date
\* field, so the date loop of get_all_rdw_data leaves them as they are.
BasisRows(k) ==
    IF k = <<"1", "A">>
    THEN { [kenteken |-> k, catalogusprijs |-> <<"2", "0", "0", "0", "3">>] }
    ELSE { [kenteken |-> k],
           [kenteken |-> k, catalogusprijs |-> <<"n", "/", "a">>] }

\* The row of the fuel dataset (8ys7-d773) of a plate: plate 1A is electric,
\* with the WLTP figure (in Wh/km); any other plate runs on petrol, with
\* the legacy consumption figure.
BrandstofRows(k) ==
    IF k = <<"1", "A">>
    THEN { [kenteken |-> k,
            brandstof_omschrijving |->
                <<"E", "l", "e", "k", "t", "r", "i", "c", "i", "t", "e", "i", "t">>,
            elektrisch_verbruik_enkel_elektrisch_wltp |-> <<"1", "5", "7">>] }
    ELSE { [kenteken |-> k,
            brandstof_omschrijving |-> <<"B", "e", "n", "z", "i", "n", "e">>,
            brandstofverbruik_gecombineerd |-> <<"6", ".", "5">>] }

\* What a registry query may answer.  With sources = "up" the registry
\* answers every query with a row a cost can be computed from; with
\* sources = "any" it may also fail or answer with no row, or with a row
\* whose list price is no number.
BasisResponses(sources, k) ==
    IF sources = "up"
    THEN {Json(<<r>>) : r \in {b \in BasisRows(k) :
                                  "catalogusprijs" \notin DOMAIN b
                                  \/ Float(b.catalogusprijs).ok}}
    ELSE {Failed, Json(<<>>)} \cup {Json(<<r>>) : r \in BasisRows(k)}

BrandstofResponses(sources, k) ==
    IF sources = "up"
    THEN {Json(<<r>>) : r \in BrandstofRows(k)}
    ELSE {Failed, Json(<<>>)} \cup {Json(<<r>>) : r \in BrandstofRows(k)}

\* The text of the second cell of the "Overijssel" row of the result table
\* of wegenbelasting.net, as the site may write it.
CellTexts == { <<"€", " ", "1", "2", "3", ",", "4", "5">>, <<"€", "1", "2", "3", ",", "4", "5">> }

\* A page of wegenbelasting.net: cell is the second cell of the Overijssel
\* row, or None when the page has no such table, row or cell.
Page(cell) == [status |-> "ok", cell |-> cell]

TaxResponses(sources) ==
    IF sources = "up" THEN {Page(<<"€", " ", "1", "2", "3", ",", "4", "5">>)}
    ELSE {Failed, Page(None)} \cup {Page(c) : c \in CellTexts}

(***************************************************************************)
(* get_all_rdw_data and the readers built on it.                           *)
(***************************************************************************)
\* A normalisation that keeps the hyphens of a spelling.
NormalizeKeepingHyphens(kenteken) == Strip(Upper(kenteken))

\* kenteken.upper().replace("-", "").strip()
NormalizeKenteken(kenteken) == Strip(Replace(Upper(kenteken), "-", <<>>))

\* A cache check that takes an error record for a miss.
InRdwCacheUnlessError(cache, kenteken) ==
    kenteken \in DOMAIN cache /\ "error" \notin DOMAIN cache[kenteken]

\* kenteken in st.session_state.rdw_cache
InRdwCache(cache, kenteken) == kenteken \in DOMAIN cache

\* The URLs of the two registry queries and of the tax form, as
\* <<endpoint, plate sent>>.
UrlBasis(kenteken) == <<"m9d7-ebf2", kenteken>>

UrlBrandstof(kenteken) == <<"8ys7-d773", kenteken>>

UrlWegenbelasting(kenteken) == <<"wegenbelasting.net", kenteken>>

\* The record built from the two bodies once both queries have succeeded
\* and the base body is not empty.
MergedRecord(response_basis, response_brandstof) ==
    IF response_brandstof.json # <<>>
    THEN Update(response_basis.json[1], response_brandstof.json[1])
    ELSE response_basis.json[1]

\* What the call stores and returns when it has to ask the registry: the
\* record, the requests it issued and the responses it read.
RdwLookup(kenteken, response_basis, response_brandstof) ==
    IF response_basis.status = "error"
    THEN [data |-> [error |-> ErrorText],
          sent |-> <<UrlBasis(kenteken)>>,
          basis |-> response_basis, brandstof |-> NoResponse]
    ELSE IF response_basis.json = <<>>
    THEN [data |-> [error |-> GeenDataGevonden],
          sent |-> <<UrlBasis(kenteken)>>,
          basis |-> response_basis, brandstof |-> NoResponse]
    ELSE IF response_brandstof.status = "error"
    THEN [data |-> [error |-> ErrorText],
          sent |-> <<UrlBasis(kenteken), UrlBrandstof(kenteken)>>,
          basis |-> response_basis, brandstof |-> response_brandstof]
    ELSE [data |-> MergedRecord(response_basis, response_brandstof),
          sent |-> <<UrlBasis(kenteken), UrlBrandstof(kenteken)>>,
          basis |-> response_basis, brandstof |-> response_brandstof]

\* get_all_rdw_data(kenteken) on the cache, with the responses the registry
\* would give: the new cache, the value returned, the requests issued.
get_all_rdw_data(cache, kenteken_arg, response_basis, response_brandstof) ==
    LET kenteken == NormalizeKenteken(kenteken_arg)
        looked   == RdwLookup(kenteken, response_basis, response_brandstof)
    IN  IF InRdwCache(cache, kenteken)
        THEN [cache |-> cache, ret |-> cache[kenteken], sent |-> <<>>,
              basis |-> NoResponse, brandstof |-> NoResponse]
        ELSE [cache |-> Put(cache, kenteken, looked.data),
              ret |-> looked.data, sent |-> looked.sent,
              basis |-> looked.basis, brandstof |-> looked.brandstof]

\* get_rdw_data(kenteken, veld), called once the plate is in the cache.
get_rdw_data(cache, kenteken, veld) ==
    LET all_data == get_all_rdw_data(cache, kenteken, NoResponse, NoResponse).ret
    IN  IF "error" \in DOMAIN all_data THEN all_data["error"]
        ELSE Get(all_data, veld)

get_rdw_brandstof(cache, kenteken) ==
    get_rdw_data(cache, kenteken, "brandstof_omschrijving")

\* brandstof and "ELEKTR" in brandstof.upper()
IsElektrisch(brandstof) == Truthy(brandstof) /\ Contains(ELEKTR, Upper(brandstof))

\* float(v) in hundredths, with 0.0 for a ValueError (no number) or a
\* TypeError (None).
FloatOrZero(v) ==
    IF v = None \/ ~Float(v).ok THEN 0 ELSE Hundredths(Float(v))

\* get_rdw_brandstof_verbruik(kenteken), in hundredths of L/100km or
\* kWh/100km.  The registry figures of the model have at most one decimal,
\* so the division by 10 is exact.
get_rdw_brandstof_verbruik(cache, kenteken) ==
    LET brandstof == get_rdw_brandstof(cache, kenteken)
    IN  IF IsElektrisch(brandstof)
        THEN LET verbruik ==
                     get_rdw_data(cache, kenteken,
                                  "elektrisch_verbruik_enkel_elektrisch_wltp")
             IN  IF verbruik = None \/ verbruik = VeldNietGevonden
                 THEN (170 * 100) \div 10
                 ELSE FloatOrZero(verbruik) \div 10
        ELSE LET wltp ==
                     get_rdw_data(cache, kenteken,
                                  "brandstof_verbruik_gecombineerd_wltp")
                 verbruik ==
                     IF wltp = None \/ wltp = VeldNietGevonden
                     THEN get_rdw_data(cache, kenteken,
                                       "brandstofverbruik_gecombineerd")
                     ELSE wltp
             IN  FloatOrZero(verbruik)

(***************************************************************************)
(* get_overijssel_price and the parsing of its result.                     *)
(***************************************************************************)
\* kenteken in st.session_state.wegenbelasting_cache
InWegenbelastingCache(cache, kenteken) == kenteken \in DOMAIN cache

\* What the call stores when it has to ask the site.
ScrapedPrice(response) ==
    IF response.status = "error" THEN ErrorText
    ELSE IF response.cell # None THEN Strip(response.cell)
    ELSE NietGevonden

get_overijssel_price(cache, kenteken, response) ==
    IF InWegenbelastingCache(cache, kenteken)
    THEN [cache |-> cache, ret |-> cache[kenteken], sent |-> <<>>]
    ELSE [cache |-> Put(cache, kenteken, ScrapedPrice(response)),
          ret |-> ScrapedPrice(response),
          sent |-> <<UrlWegenbelasting(kenteken)>>]

Zero == [ok |-> TRUE, mant |-> 0, dec |-> 0]

\* Lines 244-250: the number read from wb_str, 0.0 after any exception
\* (the IndexError of split(" ")[1], the ValueError of float).
ParseWegenbelasting(wb_str) ==
    IF StartsWith(wb_str, <<"€">>)
    THEN LET pieces == Split(wb_str, " ")
         IN  IF Len(pieces) < 2 THEN Zero
             ELSE LET p == Float(Replace(pieces[2], ",", <<".">>))
                  IN  IF p.ok THEN p ELSE Zero
    ELSE LET p == Float(Replace(wb_str, ",", <<".">>))
         IN  IF p.ok THEN p ELSE Zero

\* wb_numeric, in cents.
WbNumeric(wb_str) == Hundredths(ParseWegenbelasting(wb_str))

(***************************************************************************)
(* The formatted cells of a result row that the expanders read back.       *)
(***************************************************************************)
RECURSIVE IntStr(_)
\* str(n) for n >= 0
IntStr(n) ==
    IF n < 10 THEN <<Digits[n + 1]>>
    ELSE IntStr(n \div 10) \o <<Digits[(n % 10) + 1]>>

RECURSIVE Grouped(_)
\* The "," option of the format: a comma before every group of three digits.
Grouped(ds) ==
    IF Len(ds) <= 3 THEN ds
    ELSE Grouped(SubSeq(ds, 1, Len(ds) - 3)) \o <<",">>
         \o SubSeq(ds, Len(ds) - 2, Len(ds))

\* f"€ {x:,.2f}" of an amount x given in cents.
FormatMoney(cents) ==
    LET abs == IF cents < 0 THEN 0 - cents ELSE cents
    IN  <<"€", " ">> \o (IF cents < 0 THEN <<"-">> ELSE <<>>)
        \o Grouped(IntStr(abs \div 100)) \o <<".">>
        \o <<Digits[((abs % 100) \div 10) + 1], Digits[(abs % 10) + 1]>>

\* f"{p:.2f}%" of a whole percentage p.
FormatPct(p) == IntStr(p) \o <<".", "0", "0", "%">>

\* float(s.replace("€", "").replace(",", "")), in cents.
ParseMoney(s) == Hundredths(Float(Replace(Replace(s, "€", <<>>), ",", <<>>)))

\* float(s.replace("%", "")), in whole percents.
ParsePct(s) == Hundredths(Float(Replace(s, "%", <<>>))) \div 100

(***************************************************************************)
(* The body of the per-plate loop (lines 213-301).                         *)
(***************************************************************************)
\* catalogusprijs and catalogusprijs != "Geen data gevonden"
HasCatalogusprijs(car_data) ==
    /\ Truthy(Get(car_data, "catalogusprijs"))
    /\ Get(car_data, "catalogusprijs") # GeenDataGevonden

\* float(catalogusprijs) raises ValueError.  The default of overrides.get
\* (line 221) is evaluated before the override is looked up.
RaisesValueError(car_data) ==
    HasCatalogusprijs(car_data) /\ ~Float(car_data["catalogusprijs"]).ok

\* The defaults of the five parameters, in cents and whole percents.
DefaultAanschafwaarde(car_data) ==
    IF HasCatalogusprijs(car_data)
    THEN Hundredths(Float(car_data["catalogusprijs"]))
    ELSE 15000 * 100

DefaultAfschrijving == 15

DefaultVerzekering == 200 * 100

DefaultLease == 0

DefaultOnderhoud == 80 * 100

\* A resolution that never looks into the override store.
ResolveDefaultOnly(store, param, kenteken, default) == default

\* st.session_state.overrides.get(f'{param}_{kenteken}', default)
Resolve(store, param, kenteken, default) ==
    GetOr(store, OverrideKey(param, kenteken), default)

\* Ticks (1/1200 cent) in a cent: the unit of the monthly amounts.
Ticks == 12 * 100

\* A total that leaves the road tax out.
KostenZonderWegenbelasting(afschrijving, rente, verzekering, onderhoud, wb) ==
    afschrijving + rente + verzekering * Ticks + onderhoud * Ticks

\* Line 265.
KostenExclBrandstof(afschrijving, rente, verzekering, onderhoud, wb) ==
    afschrijving + rente + verzekering * Ticks + onderhoud * Ticks + wb * Ticks

\* Line 267.
KostenInclBrandstof(kosten_excl_brandstof, brandstof_per_maand) ==
    kosten_excl_brandstof + brandstof_per_maand

\* Lines 255-258: the price per unit of energy, in cents.
EnergyPrice(brandstof, params) ==
    IF IsElektrisch(brandstof) THEN params.elektraprijs
    ELSE params.brandstofprijs

\* Line 284: the unit written after the consumption figure.
Eenheid(brandstof) ==
    IF Truthy(brandstof) /\ ~Contains(ELEKTR, Upper(brandstof))
    THEN "L/100km" ELSE "kWh/100km"

\* The row appended for a plate whose record has no "error" key, from the
\* overrides, the sidebar values (params), the cached record and the tax
\* string.  Each numeric field holds the value of the loop's variable of
\* that name, which the row formats with two decimals; the four cells the
\* expanders parse back are kept as formatted.  jaarlijkse_km is a multiple
\* of 100 in the model, so jaarlijkse_km / 100 is exact.
Row(kenteken, car_data, store, params, cache, wb_str) ==
    LET aanschafwaarde ==
            Resolve(store, "aanschaf", kenteken, DefaultAanschafwaarde(car_data))
        afschrijving_percentage ==
            Resolve(store, "afschrijving", kenteken, DefaultAfschrijving)
        verzekering_per_maand ==
            Resolve(store, "verzekering", kenteken, DefaultVerzekering)
        leaseprijs == Resolve(store, "lease", kenteken, DefaultLease)
        onderhoud_per_maand ==
            Resolve(store, "onderhoud", kenteken, DefaultOnderhoud)
        brandstof == Get(car_data, "brandstof_omschrijving")
        wb_numeric == WbNumeric(wb_str)
        afschrijving_per_maand_calc == aanschafwaarde * afschrijving_percentage
        verbruik == get_rdw_brandstof_verbruik(cache, kenteken)
        kosten_brandstof_per_jaar ==
            (params.jaarlijkse_km \div 100) * verbruik
            * EnergyPrice(brandstof, params)
        brandstof_per_maand == kosten_brandstof_per_jaar
        rente_per_jaar == aanschafwaarde * params.rente
        rente_per_maand == rente_per_jaar
        kosten_excl_brandstof ==
            KostenExclBrandstof(afschrijving_per_maand_calc, rente_per_maand,
                                verzekering_per_maand, onderhoud_per_maand,
                                wb_numeric)
        kosten_incl_brandstof ==
            KostenInclBrandstof(kosten_excl_brandstof, brandstof_per_maand)
        leaseprijs_incl == leaseprijs * Ticks + brandstof_per_maand
    IN  [Kenteken |-> kenteken,
         Catalogusprijs |->
             IF HasCatalogusprijs(car_data)
             THEN FormatMoney(Hundredths(Float(car_data["catalogusprijs"])))
             ELSE NietGevonden,
         Aanschafprijs |-> FormatMoney(aanschafwaarde),
         Afschrijvings |-> FormatPct(afschrijving_percentage),
         Verzekering |-> FormatMoney(verzekering_per_maand),
         Leaseprijs |-> FormatMoney(leaseprijs),
         aanschafwaarde |-> aanschafwaarde,
         afschrijving_percentage |-> afschrijving_percentage,
         verzekering_per_maand |-> verzekering_per_maand,
         leaseprijs |-> leaseprijs,
         onderhoud_per_maand |-> onderhoud_per_maand,
         wb_numeric |-> wb_numeric,
         verbruik |-> verbruik,
         eenheid |-> Eenheid(brandstof),
         brandstof_per_maand |-> brandstof_per_maand,
         rente_per_maand |-> rente_per_maand,
         kosten_excl_brandstof |-> kosten_excl_brandstof,
         kosten_incl_brandstof |-> kosten_incl_brandstof,
         leaseprijs_incl |-> leaseprijs_incl,
         verschil |-> leaseprijs_incl - kosten_incl_brandstof]

(***************************************************************************)
(* The expanders (lines 331-388): every number_input of a row is written   *)
(* back to the override store.  A widget returns the value the user has    *)
(* just typed into it, else its value= argument.                           *)
(***************************************************************************)
NoEdit == [key |-> None, value |-> 0]

\* The value= argument of the number_input of a parameter of a row.
WidgetDefault(store, param, res) ==
    GetOr(store, OverrideKey(param, res.Kenteken),
          CASE param = "aanschaf" ->
                   IF res.Aanschafprijs # NietGevonden
                   THEN ParseMoney(res.Aanschafprijs) ELSE 15000 * 100
            [] param = "afschrijving" -> ParsePct(res.Afschrijvings)
            [] param = "verzekering" ->
                   IF res.Verzekering # NietGevonden
                   THEN ParseMoney(res.Verzekering) ELSE 200 * 100
            [] param = "onderhoud" -> 80 * 100
            [] param = "lease" ->
                   IF res.Leaseprijs # NietGevonden
                   THEN ParseMoney(res.Leaseprijs) ELSE 0)

WidgetValue(store, param, res, edit) ==
    IF edit.key = OverrideKey(param, res.Kenteken) THEN edit.value
    ELSE WidgetDefault(store, param, res)

\* The override store after the expanders of all rows.  The plates of the
\* rows are pairwise different, so the order of the writes is immaterial.
WriteBack(store, rows, edit) ==
    LET written == {OverrideKey(p, rows[j].Kenteken) :
                        p \in Params, j \in 1..Len(rows)}
    IN  [key \in DOMAIN store \cup written |->
            IF key \in written
            THEN LET j == CHOOSE h \in 1..Len(rows) :
                              \E p \in Params :
                                  key = OverrideKey(p, rows[h].Kenteken)
                     p == CHOOSE q \in Params :
                              key = OverrideKey(q, rows[j].Kenteken)
                 IN  WidgetValue(store, p, rows[j], edit)
            ELSE store[key]]

(***************************************************************************)
(* The state.                                                              *)
(***************************************************************************)
VARIABLES
    authenticated,          \* st.session_state.authenticated
    overrides,              \* st.session_state.overrides
    rdw_cache,              \* st.session_state.rdw_cache
    wegenbelasting_cache,   \* st.session_state.wegenbelasting_cache
    stamdata,               \* st.session_state.stamdata
    data_file,              \* data.json
    kentekens,              \* the text area
    edit,                   \* the expander widget the user has just changed
    pc,                     \* "idle", or "loop" while the script runs
    kenteken_list,          \* the plates of the running script
    idx,                    \* the position of the loop in kenteken_list
    results,                \* the rows of the running (or last) script run
    exception,              \* the exception that ended the last script run
    car_data,               \* what the last get_all_rdw_data of the loop returned
    response_basis,         \* the responses that call read
    response_brandstof,
    wb_str,                 \* the loop's tax string (line 243)
    wb_numeric,             \* the number parsed from it (lines 244-250)
    requests,               \* the URLs requested by the running (or last) run
    runs                    \* script runs started by the user so far

session_vars == <<authenticated, overrides, rdw_cache, wegenbelasting_cache,
                  stamdata>>

run_vars == <<kenteken_list, idx, results, exception, car_data,
              response_basis, response_brandstof, wb_str, wb_numeric, requests>>

vars == <<authenticated, overrides, rdw_cache, wegenbelasting_cache, stamdata,
          data_file, kentekens, edit, pc, kenteken_list, idx, results,
          exception, car_data, response_basis, response_brandstof, wb_str,
          wb_numeric, requests, runs>>

EmptyDict == <<>>

NoFile == [exists |-> FALSE]

\* No get_all_rdw_data call has returned yet in this script run.
NoCall == [nocall |-> TRUE]

\* wb_numeric before the parsing has run.
NotParsed == [ok |-> FALSE, mant |-> 0, dec |-> 0]

(***************************************************************************)
(* Persistence (lines 15-42).  json.dump and json.load keep dicts of str   *)
(* keys with str, number and dict values as they are.                      *)
(***************************************************************************)
\* save_persistent_data: the file written from the session state.
SavedFile(ov, rdw, wb, stam) ==
    [exists |-> TRUE,
     data |-> [overrides |-> ov, cars_info |-> EmptyDict, rdw_cache |-> rdw,
               wegenbelasting_cache |-> wb, stamdata |-> stam]]

\* load_persistent_data: data.get(name, {}) of the file, {} without a file.
Loaded(file, name) ==
    IF file.exists THEN GetOr(file.data, name, EmptyDict) ELSE EmptyDict

(***************************************************************************)
(* The sidebar (lines 190-197).                                            *)
(***************************************************************************)
\* The value= defaults: 35000 km, 2.00 and 0.35 (in cents), 5.0 percent.
StamdataDefaults ==
    [jaarlijkse_km |-> 35000, brandstofprijs |-> 200, elektraprijs |-> 35,
     rente |-> 5]

\* What the user may type in the sidebar.
StamdataEdits ==
    { [key |-> "jaarlijkse_km", value |-> 15000],
      [key |-> "brandstofprijs", value |-> 180] }

\* The four sidebar values, which the script writes to stamdata.
Sidebar(stam, change) ==
    [f \in DOMAIN StamdataDefaults |->
        IF change.key = f THEN change.value
        ELSE GetOr(stam, f, StamdataDefaults[f])]

(***************************************************************************)
(* The text area (lines 200-202).                                          *)
(***************************************************************************)
\* What the user may type: plate 1A spelled "1-a" and "1A", alone and
\* together, and "1-a" with plate 2B after a blank line.
InputTexts ==
    { <<"1", "-", "a">>,
      <<"1", "A">>,
      <<"1", "-", "a", "\n", "1", "A">>,
      <<"1", "-", "a", "\n", " ", "\n", " ", "2", "b">> }

NonBlank(k) == Strip(k) # <<>>

\* [k.strip().upper() for k in kentekens.split('\n') if k.strip()], and
\* no list when the text is empty.
KentekenList(text) ==
    IF text = <<>> THEN <<>>
    ELSE LET kept == SelectSeq(Split(text, "\n"), NonBlank)
         IN  [j \in 1..Len(kept) |-> Upper(Strip(kept[j]))]

Range(seq) == {seq[j] : j \in 1..Len(seq)}

(***************************************************************************)
(* Init: a fresh session on a machine without data.json.                   *)
(***************************************************************************)
Init ==
    /\ authenticated = FALSE
    /\ overrides = EmptyDict
    /\ rdw_cache = EmptyDict
    /\ wegenbelasting_cache = EmptyDict
    /\ stamdata = EmptyDict
    /\ data_file = NoFile
    /\ kentekens = <<>>
    /\ edit = NoEdit
    /\ pc = "idle"
    /\ kenteken_list = <<>>
    /\ idx = 1
    /\ results = <<>>
    /\ exception = "none"
    /\ car_data = NoCall
    /\ response_basis = NoResponse
    /\ response_brandstof = NoResponse
    /\ wb_str = None
    /\ wb_numeric = NotParsed
    /\ requests = <<>>
    /\ runs = 0

(***************************************************************************)
(* Lines 47-61: the login page.  A right password loads data.json and      *)
(* reruns the script, which now shows the main page with an empty text     *)
(* area: it writes the sidebar values to stamdata and saves.               *)
(***************************************************************************)
Passwords == {"AutoPonti", "wrong"}

Login(password) ==
    /\ ~authenticated
    /\ pc = "idle"
    /\ IF password = "AutoPonti"
       THEN LET stam == Sidebar(Loaded(data_file, "stamdata"), NoEdit)
            IN  /\ authenticated' = TRUE
                /\ overrides' = Loaded(data_file, "overrides")
                /\ rdw_cache' = Loaded(data_file, "rdw_cache")
                /\ wegenbelasting_cache' =
                       Loaded(data_file, "wegenbelasting_cache")
                /\ stamdata' = stam
                /\ data_file' =
                       SavedFile(overrides', rdw_cache',
                                 wegenbelasting_cache', stam)
       ELSE UNCHANGED <<session_vars, data_file>>
    /\ UNCHANGED <<kentekens, edit, pc, run_vars, runs>>

(***************************************************************************)
(* A user interaction on the main page starts a script run: the sidebar is *)
(* written to stamdata and the text area is split into the plates.         *)
(***************************************************************************)
StartRun(text, change, sidebar) ==
    /\ authenticated
    /\ pc = "idle"
    /\ runs < MaxRuns
    /\ runs' = runs + 1
    /\ kentekens' = text
    /\ edit' = change
    /\ stamdata' = Sidebar(stamdata, sidebar)
    /\ kenteken_list' = KentekenList(text)
    /\ idx' = 1
    /\ results' = <<>>
    /\ exception' = "none"
    /\ car_data' = NoCall
    /\ response_basis' = NoResponse
    /\ response_brandstof' = NoResponse
    /\ wb_str' = None
    /\ wb_numeric' = NotParsed
    /\ requests' = <<>>
    /\ pc' = "loop"
    /\ UNCHANGED <<authenticated, overrides, rdw_cache, wegenbelasting_cache,
                   data_file>>

\* The user changes the text area.
SubmitKentekens(text) ==
    /\ text # kentekens
    /\ StartRun(text, NoEdit, NoEdit)

\* The expanders of the last run are on the page.
Rendered == pc = "idle" /\ exception = "none" /\ results # <<>>

\* What the user may type in the number_input of a parameter.
EditValues(param) ==
    CASE param = "aanschaf" -> {10000 * 100}
      [] param = "afschrijving" -> {10}
      [] param = "verzekering" -> {150 * 100}
      [] param = "lease" -> {500 * 100}
      [] param = "onderhoud" -> {60 * 100}

\* The user changes one number_input of one expander.
EditOverride(param, kenteken, value) ==
    /\ Rendered
    /\ \E j \in 1..Len(results) : results[j].Kenteken = kenteken
    /\ overrides[OverrideKey(param, kenteken)] # value
    /\ StartRun(kentekens,
                [key |-> OverrideKey(param, kenteken), value |-> value],
                NoEdit)

\* The user changes one sidebar value.
EditStamdata(change) ==
    /\ authenticated
    /\ stamdata[change.key] # change.value
    /\ StartRun(kentekens, NoEdit, change)

(***************************************************************************)
(* One iteration of the per-plate loop (lines 208-301).  The registry and  *)
(* the tax site answer only the requests the code issues.                  *)
(***************************************************************************)
BasisChoices(sources, kenteken) ==
    IF InRdwCache(rdw_cache, NormalizeKenteken(kenteken)) THEN {NoResponse}
    ELSE BasisResponses(sources, NormalizeKenteken(kenteken))

BrandstofChoices(sources, kenteken, rb) ==
    IF rb.status = "ok" /\ rb.json # <<>>
    THEN BrandstofResponses(sources, NormalizeKenteken(kenteken))
    ELSE {NoResponse}

\* The plate is skipped (lines 210-211).
Skipped(data) == "error" \in DOMAIN data

TaxChoices(sources, kenteken, data) ==
    IF \/ Skipped(data)
       \/ RaisesValueError(data)
       \/ InWegenbelastingCache(wegenbelasting_cache, kenteken)
    THEN {NoResponse}
    ELSE TaxResponses(sources)

ProcessPlate(sources) ==
    /\ pc = "loop"
    /\ idx <= Len(kenteken_list)
    /\ LET kenteken == kenteken_list[idx]
       IN  \E rb \in BasisChoices(sources, kenteken) :
           \E rf \in BrandstofChoices(sources, kenteken, rb) :
             LET call == get_all_rdw_data(rdw_cache, kenteken, rb, rf)
             IN  /\ rdw_cache' = call.cache
                 /\ car_data' = call.ret
                 /\ response_basis' = call.basis
                 /\ response_brandstof' = call.brandstof
                 /\ \E rt \in TaxChoices(sources, kenteken, call.ret) :
                      IF Skipped(call.ret)
                      THEN /\ idx' = idx + 1
                           /\ requests' = requests \o call.sent
                           /\ UNCHANGED <<wegenbelasting_cache, results,
                                          exception, pc, edit, wb_str,
                                          wb_numeric>>
                      ELSE IF RaisesValueError(call.ret)
                      THEN \* The exception ends the script run: nothing is
                           \* rendered and line 400 is not reached.
                           /\ exception' = "ValueError"
                           /\ pc' = "idle"
                           /\ edit' = NoEdit
                           /\ requests' = requests \o call.sent
                           /\ UNCHANGED <<wegenbelasting_cache, results, idx,
                                          wb_str, wb_numeric>>
                      ELSE LET tax == get_overijssel_price(
                                          wegenbelasting_cache, kenteken, rt)
                           IN  /\ wegenbelasting_cache' = tax.cache
                               /\ wb_str' = tax.ret
                               /\ wb_numeric' = ParseWegenbelasting(tax.ret)
                               /\ requests' = requests \o call.sent \o tax.sent
                               /\ results' =
                                      Append(results,
                                             Row(kenteken, call.ret, overrides,
                                                 stamdata, call.cache, tax.ret))
                               /\ idx' = idx + 1
                               /\ UNCHANGED <<exception, pc, edit>>
    /\ UNCHANGED <<authenticated, overrides, stamdata, data_file, kentekens,
                   kenteken_list, runs>>

(***************************************************************************)
(* After the loop (lines 303-400): the table, the expanders with their     *)
(* write-back to the override store, and save_persistent_data.             *)
(***************************************************************************)
RenderAndSave ==
    /\ pc = "loop"
    /\ idx > Len(kenteken_list)
    /\ overrides' = IF results # <<>> THEN WriteBack(overrides, results, edit)
                    ELSE overrides
    /\ data_file' = SavedFile(overrides', rdw_cache, wegenbelasting_cache,
                              stamdata)
    /\ edit' = NoEdit
    /\ pc' = "idle"
    /\ UNCHANGED <<authenticated, rdw_cache, wegenbelasting_cache, stamdata,
                   kentekens, run_vars, runs>>

(***************************************************************************)
(* The session ends and another one begins: a fresh session state, not     *)
(* authenticated, while data.json stays.                                   *)
(***************************************************************************)
NewSession ==
    /\ pc = "idle"
    /\ authenticated
    /\ authenticated' = FALSE
    /\ overrides' = EmptyDict
    /\ rdw_cache' = EmptyDict
    /\ wegenbelasting_cache' = EmptyDict
    /\ stamdata' = EmptyDict
    /\ kentekens' = <<>>
    /\ edit' = NoEdit
    /\ kenteken_list' = <<>>
    /\ idx' = 1
    /\ results' = <<>>
    /\ exception' = "none"
    /\ car_data' = NoCall
    /\ response_basis' = NoResponse
    /\ response_brandstof' = NoResponse
    /\ wb_str' = None
    /\ wb_numeric' = NotParsed
    /\ requests' = <<>>
    /\ UNCHANGED <<data_file, pc, runs>>

(***************************************************************************)
(* Spec: the user types plates, over any number of sessions, while the     *)
(* registry and the tax site answer as they like.                          *)
(***************************************************************************)
Next ==
    \/ \E password \in Passwords : Login(password)
    \/ \E text \in InputTexts : SubmitKentekens(text)
    \/ ProcessPlate("any")
    \/ RenderAndSave
    \/ NewSession

Spec == Init /\ [][Next]_vars

(***************************************************************************)
(* SpecOverrides: the user types plates and changes the expanders and the  *)
(* sidebar, while the registry and the tax site are up.                    *)
(***************************************************************************)
NextOverrides ==
    \/ \E password \in Passwords : Login(password)
    \/ \E text \in InputTexts : SubmitKentekens(text)
    \/ \E param \in Params, j \in 1..Len(results) :
           \E value \in EditValues(param) :
               EditOverride(param, results[j].Kenteken, value)
    \/ \E change \in StamdataEdits : EditStamdata(change)
    \/ ProcessPlate("up")
    \/ RenderAndSave
    \/ NewSession

SpecOverrides == Init /\ [][NextOverrides]_vars

(***************************************************************************)
(* SpecParse: lines 244-250 applied to every string of at most             *)
(* MaxAmountLen characters of AmountChars.                                 *)
(***************************************************************************)
AmountChars == {"€", " ", "1", "5", ",", ".", "x"}

AmountStrings ==
    UNION { [1..n -> AmountChars] : n \in 0..MaxAmountLen }

InitParse ==
    /\ authenticated = FALSE
    /\ overrides = EmptyDict
    /\ rdw_cache = EmptyDict
    /\ wegenbelasting_cache = EmptyDict
    /\ stamdata = EmptyDict
    /\ data_file = NoFile
    /\ kentekens = <<>>
    /\ edit = NoEdit
    /\ pc = "idle"
    /\ kenteken_list = <<>>
    /\ idx = 1
    /\ results = <<>>
    /\ exception = "none"
    /\ car_data = NoCall
    /\ response_basis = NoResponse
    /\ response_brandstof = NoResponse
    /\ wb_str \in AmountStrings
    /\ wb_numeric = NotParsed
    /\ requests = <<>>
    /\ runs = 0

ParseTax ==
    /\ wb_numeric = NotParsed
    /\ wb_numeric' = ParseWegenbelasting(wb_str)
    /\ UNCHANGED <<session_vars, data_file, kentekens, edit, pc, kenteken_list,
                   idx, results, exception, car_data, response_basis,
                   response_brandstof, wb_str, requests, runs>>

NextParse == ParseTax

SpecParse == InitParse /\ [][NextParse]_vars

(***************************************************************************)
(* The properties.  A plate, as the specification means it, is what is     *)
(* left of a spelling once its hyphens and surrounding whitespace are gone *)
(* and its letters are upper case.                                         *)
(***************************************************************************)
NotHyphen(c) == c # "-"

PlateOf(spelling) == Strip(SelectSeq(Upper(spelling), NotHyphen))

\* The plate the last get_all_rdw_data call of the loop was made for.
LastPlate ==
    IF exception # "none" THEN kenteken_list[idx] ELSE kenteken_list[idx - 1]

RegistryEndpoints == {"m9d7-ebf2", "8ys7-d773"}

\* The requests a step adds to the log of the run.
NewRequests ==
    IF Len(requests') >= Len(requests)
       /\ SubSeq(requests', 1, Len(requests)) = requests
    THEN SubSeq(requests', Len(requests) + 1, Len(requests'))
    ELSE requests'

\* A run never asks the base dataset twice for one plate, however spelled.
C1_OncePerRun ==
    \A i, j \in 1..Len(requests) :
        (i < j /\ requests[i][1] = "m9d7-ebf2" /\ requests[j][1] = "m9d7-ebf2")
            => PlateOf(requests[i][2]) # PlateOf(requests[j][2])

\* What the call returned is the record stored under the plate.
C1_ReturnsCached ==
    car_data # NoCall =>
        /\ PlateOf(LastPlate) \in DOMAIN rdw_cache
        /\ rdw_cache[PlateOf(LastPlate)] = car_data

\* A call for a plate that has a record, under whatever spelling it was
\* stored, asks the registry nothing and returns that record.
C1_HitIssuesNothing ==
    (/\ pc = "loop"
     /\ idx <= Len(kenteken_list)
     /\ PlateOf(kenteken_list[idx]) \in DOMAIN rdw_cache)
        => /\ \A i \in 1..Len(NewRequests) :
                  NewRequests[i][1] \notin RegistryEndpoints
           /\ car_data' = rdw_cache[PlateOf(kenteken_list[idx])]
           /\ rdw_cache' = rdw_cache

\* C1: registry cache-once.  Of two get_all_rdw_data calls for spellings of
\* one plate, only the first asks the registry (one request sequence per
\* plate), and the second returns the record stored in rdw_cache under the
\* normalized plate.
C1_CacheOnce ==
    /\ [](C1_OncePerRun /\ C1_ReturnsCached)
    /\ [][C1_HitIssuesNothing]_vars

\* C1's case: a finished run over two spellings of one plate, with a single
\* request to the base dataset.
C1_Witness ==
    /\ pc = "idle"
    /\ exception = "none"
    /\ \E i, j \in 1..Len(results) :
          /\ i < j
          /\ results[i].Kenteken # results[j].Kenteken
          /\ PlateOf(results[i].Kenteken) = PlateOf(results[j].Kenteken)
          /\ Cardinality({h \in 1..Len(requests) :
                             requests[h] = UrlBasis(PlateOf(results[i].Kenteken))})
             = 1

\* C2: when the base query returns a row and the fuel query fails on its
\* own, the call still returns the record built from the base row, without
\* the fuel fields; only an empty base result gives "Geen data gevonden".
C2_FuelFailureNonFatal ==
    /\ (/\ response_basis.status = "ok"
        /\ response_basis.json # <<>>
        /\ response_brandstof.status = "error")
           => car_data = response_basis.json[1]
    /\ (response_basis.status = "ok" /\ car_data = [error |-> GeenDataGevonden])
           => response_basis.json = <<>>

\* The plates of the list whose record is a vehicle record.
Resolved ==
    {j \in 1..Len(kenteken_list) :
        /\ PlateOf(kenteken_list[j]) \in DOMAIN rdw_cache
        /\ ~Skipped(rdw_cache[PlateOf(kenteken_list[j])])}

\* C3: per-plate failure isolation.  A run over a list is never aborted by
\* one plate: when it has ended, every plate of the list with a vehicle
\* record has its row.
C3_FailureIsolation ==
    (pc = "idle" /\ kenteken_list # <<>>) =>
        /\ exception = "none"
        /\ \A j \in Resolved :
              \E h \in 1..Len(results) : results[h].Kenteken = kenteken_list[j]

\* The value a row used for a parameter.
C4_Used(row, param) ==
    CASE param = "aanschaf" -> row.aanschafwaarde
      [] param = "afschrijving" -> row.afschrijving_percentage
      [] param = "verzekering" -> row.verzekering_per_maand
      [] param = "lease" -> row.leaseprijs
      [] param = "onderhoud" -> row.onderhoud_per_maand

\* The default D of a parameter for a vehicle record: the list price of the
\* record, else 15000, for the purchase price; 15 %, 200, 0 and 80 for the
\* others.
C4_Default(param, record) ==
    CASE param = "aanschaf" ->
             IF "catalogusprijs" \in DOMAIN record
             THEN Hundredths(Float(record["catalogusprijs"]))
             ELSE 1500000
      [] param = "afschrijving" -> 15
      [] param = "verzekering" -> 20000
      [] param = "lease" -> 0
      [] param = "onderhoud" -> 8000

\* C4: override precedence.  While a run computes, each of the five
\* parameters of every row is the value V the override store holds for the
\* plate and the parameter when it holds one, and the default D when it
\* holds none; there is no other source.
C4_OverridePrecedence ==
    pc = "loop" =>
        \A j \in 1..Len(results) : \A param \in Params :
            LET key == OverrideKey(param, results[j].Kenteken)
                record == rdw_cache[PlateOf(results[j].Kenteken)]
            IN  C4_Used(results[j], param) =
                    IF key \in DOMAIN overrides THEN overrides[key]
                    ELSE C4_Default(param, record)

\* C4's case: one run computes a row from a stored purchase price that
\* differs from the default, and another row, of a plate with no stored
\* values, from the defaults.
C4_Witness ==
    /\ pc = "loop"
    /\ \E i, j \in 1..Len(results) :
          LET ki == OverrideKey("aanschaf", results[i].Kenteken)
              kj == OverrideKey("aanschaf", results[j].Kenteken)
              record == rdw_cache[PlateOf(results[i].Kenteken)]
          IN  /\ ki \in DOMAIN overrides
              /\ overrides[ki] # C4_Default("aanschaf", record)
              /\ results[i].aanschafwaarde = overrides[ki]
              /\ kj \notin DOMAIN overrides
              /\ results[j].aanschafwaarde = C4_Default("aanschaf", record)

\* C5: total invariant.  In every row the total per month excluding energy
\* is depreciation + interest + insurance + maintenance + road tax and
\* nothing else, and the total including energy is that total + energy per
\* month (all in ticks).
C5_TotalInvariant ==
    \A j \in 1..Len(results) :
        LET r == results[j]
        IN  /\ r.kosten_excl_brandstof =
                   r.aanschafwaarde * r.afschrijving_percentage
                   + r.rente_per_maand
                   + 1200 * r.verzekering_per_maand
                   + 1200 * r.onderhoud_per_maand
                   + 1200 * r.wb_numeric
            /\ r.kosten_incl_brandstof =
                   r.kosten_excl_brandstof + r.brandstof_per_maand

\* C5's case: a row in which every term of the totals is positive.
C5_Witness ==
    \E j \in 1..Len(results) :
        /\ results[j].wb_numeric > 0
        /\ results[j].brandstof_per_maand > 0
        /\ results[j].rente_per_maand > 0
        /\ results[j].aanschafwaarde * results[j].afschrijving_percentage > 0
        /\ results[j].verzekering_per_maand > 0
        /\ results[j].onderhoud_per_maand > 0

\* An amount string without its currency symbol ("€" or "€ ").
C6_Body(s) ==
    IF StartsWith(s, <<"€", " ">>) THEN SubSeq(s, 3, Len(s))
    ELSE IF StartsWith(s, <<"€">>) THEN SubSeq(s, 2, Len(s))
    ELSE s

C6_Separators(b) == {i \in 1..Len(b) : b[i] \in {",", "."}}

\* A decimal number written with a comma or a dot as decimal separator.
C6_IsDecimal(b) ==
    /\ b # <<>>
    /\ \A i \in 1..Len(b) : IsDigit(b[i]) \/ i \in C6_Separators(b)
    /\ Cardinality(C6_Separators(b)) <= 1
    /\ IsDigit(b[1]) /\ IsDigit(b[Len(b)])

\* The number it writes: mant / 10^dec.
C6_Number(b) ==
    [mant |-> DigitsVal(SelectSeq(b, IsDigit)),
     dec |-> IF C6_Separators(b) = {} THEN 0
             ELSE Len(b) - (CHOOSE i \in C6_Separators(b) : TRUE)]

\* A string that is a number to no reading: even without surrounding
\* whitespace and with a decimal separator at either end allowed, it is
\* not digits around at most one separator.
C6_NoNumber(s) ==
    LET b == Strip(C6_Body(Strip(s)))
    IN  \/ \A i \in 1..Len(b) : ~IsDigit(b[i])
        \/ \E i \in 1..Len(b) : ~IsDigit(b[i]) /\ i \notin C6_Separators(b)
        \/ Cardinality(C6_Separators(b)) > 1

\* C6: tax amount parsing.  An amount string (an optional "€", with or
\* without a space after it, and a decimal number with a comma or a dot)
\* parses to that number; a string that is no number parses to 0.0.
C6_TaxParsing ==
    (wb_numeric # NotParsed /\ wb_str # None) =>
        /\ C6_IsDecimal(C6_Body(wb_str)) =>
               wb_numeric.mant * Pow10(C6_Number(C6_Body(wb_str)).dec)
               = C6_Number(C6_Body(wb_str)).mant * Pow10(wb_numeric.dec)
        /\ C6_NoNumber(wb_str) => wb_numeric.mant = 0

\* The purchase price of a record without an override: the list price when
\* it is present and numeric, else 15000.
C7_ListPriceOrFallback(record) ==
    IF /\ "catalogusprijs" \in DOMAIN record
       /\ Float(record["catalogusprijs"]).ok
    THEN Hundredths(Float(record["catalogusprijs"]))
    ELSE 1500000

\* C7: purchase-price resolution never raises.  No run ends in an
\* exception, and the purchase price of every row is the override if there
\* is one, else the numeric list price, else 15000.
C7_NeverRaises ==
    /\ exception = "none"
    /\ pc = "loop" =>
          \A j \in 1..Len(results) :
              LET key == OverrideKey("aanschaf", results[j].Kenteken)
              IN  results[j].aanschafwaarde =
                      IF key \in DOMAIN overrides THEN overrides[key]
                      ELSE C7_ListPriceOrFallback(
                               rdw_cache[PlateOf(results[j].Kenteken)])

\* The branch get_rdw_brandstof_verbruik takes for a record.
C8_ElectricBranch(record) ==
    /\ "brandstof_omschrijving" \in DOMAIN record
    /\ record["brandstof_omschrijving"] # <<>>
    /\ Contains(<<"E", "L", "E", "K", "T", "R">>,
                Upper(record["brandstof_omschrijving"]))

\* C8: consumption unit consistency.  Every row reports kWh/100km and
\* applies the electricity price exactly when the consumption resolver took
\* the electric branch, and L/100km and the fuel price otherwise.
C8_UnitConsistency ==
    pc = "loop" =>
        \A j \in 1..Len(results) :
            LET r == results[j]
                electric == C8_ElectricBranch(rdw_cache[PlateOf(r.Kenteken)])
            IN  /\ r.eenheid = IF electric THEN "kWh/100km" ELSE "L/100km"
                /\ r.brandstof_per_maand =
                       (stamdata.jaarlijkse_km \div 100) * r.verbruik
                       * (IF electric THEN stamdata.elektraprijs
                          ELSE stamdata.brandstofprijs)

\* C9: tax cache-once by plate.  A run never asks the tax site twice for
\* one plate, however spelled, and the spellings of one plate share one
\* wegenbelasting_cache entry.
C9_TaxCacheOnce ==
    /\ \A i, j \in 1..Len(requests) :
          (/\ i < j
           /\ requests[i][1] = "wegenbelasting.net"
           /\ requests[j][1] = "wegenbelasting.net")
              => PlateOf(requests[i][2]) # PlateOf(requests[j][2])
    /\ \A k1, k2 \in DOMAIN wegenbelasting_cache :
          PlateOf(k1) = PlateOf(k2) => k1 = k2

\* The entries of a cache are all in another one, unchanged.
Keeps(old, new) ==
    \A k \in DOMAIN old : k \in DOMAIN new /\ new[k] = old[k]

FileCache(file) == IF file.exists THEN file.data.rdw_cache ELSE <<>>

\* No step clears or overwrites an entry of the rdw_cache of a session or
\* of the saved state, and a login takes the cache from the saved state.
C10_EntriesStay ==
    /\ (authenticated /\ authenticated') => Keeps(rdw_cache, rdw_cache')
    /\ Keeps(FileCache(data_file), FileCache(data_file'))
    /\ (~authenticated /\ authenticated') =>
           Keeps(FileCache(data_file), rdw_cache')

\* A call for a plate with a stored error record asks the registry nothing,
\* returns that record and adds no row.
C10_ErrorHit ==
    (/\ pc = "loop"
     /\ idx <= Len(kenteken_list)
     /\ PlateOf(kenteken_list[idx]) \in DOMAIN rdw_cache
     /\ "error" \in DOMAIN rdw_cache[PlateOf(kenteken_list[idx])])
        => /\ \A i \in 1..Len(NewRequests) :
                  NewRequests[i][1] \notin RegistryEndpoints
           /\ car_data' = rdw_cache[PlateOf(kenteken_list[idx])]
           /\ results' = results

\* No row belongs to a plate whose record is an error record.
C10_Excluded ==
    \A j \in 1..Len(results) :
        /\ PlateOf(results[j].Kenteken) \in DOMAIN rdw_cache
        /\ "error" \notin DOMAIN rdw_cache[PlateOf(results[j].Kenteken)]

\* C10: failed fetches are never retried.  Once an error record is stored
\* for a plate, every later run for the plate, in the session and in any
\* later session that loads the saved state, returns it without a request
\* to the registry and leaves the plate out of the results; no step clears
\* or overwrites an rdw_cache entry.
C10_NeverRetried ==
    /\ []C10_Excluded
    /\ [][C10_EntriesStay /\ C10_ErrorHit]_vars

\* C10's case: a run over plates whose records are stored errors, also in
\* the saved state, has ended without a request and without a row.
C10_Witness ==
    /\ pc = "idle"
    /\ authenticated
    /\ kenteken_list # <<>>
    /\ requests = <<>>
    /\ results = <<>>
    /\ \A j \in 1..Len(kenteken_list) :
          /\ PlateOf(kenteken_list[j]) \in DOMAIN rdw_cache
          /\ "error" \in DOMAIN rdw_cache[PlateOf(kenteken_list[j])]
          /\ PlateOf(kenteken_list[j]) \in DOMAIN FileCache(data_file)
          /\ FileCache(data_file)[PlateOf(kenteken_list[j])]
             = rdw_cache[PlateOf(kenteken_list[j])]

\* The spellings the user may enter a plate in.
Spellings == UNION {Range(KentekenList(text)) : text \in InputTexts}

\* C11: overrides are keyed by the normalized plate.  While a run computes,
\* a value stored for a parameter under any spelling of a plate is the value
\* every row of that plate uses, so the rows of two spellings of one plate
\* have the same parameters and the same totals.
C11_OverridesByPlate ==
    pc = "loop" =>
        /\ \A j \in 1..Len(results) : \A param \in Params :
              \A s \in Spellings :
                  (/\ PlateOf(s) = PlateOf(results[j].Kenteken)
                   /\ OverrideKey(param, s) \in DOMAIN overrides)
                      => C4_Used(results[j], param)
                         = overrides[OverrideKey(param, s)]
        /\ \A i, j \in 1..Len(results) :
              PlateOf(results[i].Kenteken) = PlateOf(results[j].Kenteken)
                  => /\ \A param \in Params :
                           C4_Used(results[i], param)
                           = C4_Used(results[j], param)
                     /\ results[i].kosten_incl_brandstof
                        = results[j].kosten_incl_brandstof

=============================================================================
